---- MODULE Spec2Model ----
(***************************************************************************)
(* Model of crispy_forms/templatetags/crispy_forms_tags.py: the            *)
(* ForLoopSimulator, BasicNode.get_render / get_response_dict and          *)
(* CrispyFormNode.render, as run by one or two concurrent render calls on  *)
(* the same node object.                                                   *)
(***************************************************************************)
EXTENDS Integers, Sequences, FiniteSets, TLC

VARIABLES
    DEBUG,                       \* settings.DEBUG
    node,                        \* the CrispyFormNode: self.form, self.helper
    lookups,                     \* number of get_template() calls so far
    whole_uni_formset_template,  \* module global, loaded at import
    whole_uni_form_template,     \* module global, loaded at import
    pc,                          \* position of each render call
    context,                     \* the calling Context of each call
    actual_form,                 \* the form / formset each call resolves
    helper,                      \* the helper each call resolved
    response_dict,               \* local response_dict of get_render
    node_context,                \* local node_context of get_render
    forloop,                     \* local forloop of get_render
    form_html,                   \* form_html attribute of every form
    layout_log,                  \* what helper.render_layout was called with
    c,                           \* the Context returned by get_render
    template,                    \* local template of render
    rendered,                    \* history of completed template renders
    renders,                     \* number of render calls started
    advances,                    \* number of iterate() calls on forloop
    ambient                      \* the variables each call was invoked with

vars == <<DEBUG, node, lookups, whole_uni_formset_template,
          whole_uni_form_template, pc, context, actual_form, helper,
          response_dict, node_context, forloop, form_html, layout_log, c,
          template, rendered, renders, advances, ambient>>

globals == <<DEBUG, node, whole_uni_formset_template, whole_uni_form_template>>

\* ---------------------------------------------------------------- bounds
MaxForms == 3
MaxRenders == 2
MaxTotal == 6
MaxAdvances == 14
MaxOptions == 2

Calls == {1, 2}

\* ---------------------------------------------------------------- values
\* Python values that end up in a context, tagged so that values of
\* different Python types stay distinct and comparable.
NoMap == [k \in {} |-> ""]
Str(s) == [t |-> "str", s |-> s, m |-> NoMap]
Bool(b) == [t |-> "bool", s |-> IF b THEN "True" ELSE "False", m |-> NoMap]
None == [t |-> "none", s |-> "None", m |-> NoMap]
List(s) == [t |-> "list", s |-> s, m |-> NoMap]
Dict(m) == [t |-> "dict", s |-> "", m |-> m]
Ref(id) == [t |-> "ref", s |-> id, m |-> NoMap]

NoDict == [k \in {} |-> None]

\* dict.get(key, default)
DictGet(d, key, default) == IF key \in DOMAIN d THEN d[key] ELSE default

TEMPLATE_PACK == "bootstrap"

\* ------------------------------------------------------ ForLoopSimulator
ForLoopSimulator(len_values) ==
    [ len_values  |-> len_values,
      counter     |-> 1,
      counter0    |-> 0,
      revcounter  |-> len_values,
      revcounter0 |-> len_values - 1,
      first       |-> TRUE,
      last        |-> (0 = len_values - 1) ]

iterate_last_at_zero(self) ==
    [ self EXCEPT !.counter = @ + 1, !.counter0 = @ + 1,
                  !.revcounter = @ - 1, !.revcounter0 = @ - 1,
                  !.first = FALSE,
                  !.last = (self.revcounter0 - 1 = 0) ]

iterate_no_reverse(self) ==
    [ self EXCEPT !.counter = @ + 1, !.counter0 = @ + 1,
                  !.revcounter = @ - 1,
                  !.first = FALSE,
                  !.last = (self.revcounter0 = self.len_values - 1) ]

iterate(self) ==
    [ self EXCEPT !.counter = @ + 1, !.counter0 = @ + 1,
                  !.revcounter = @ - 1, !.revcounter0 = @ - 1,
                  !.first = FALSE,
                  !.last = (self.revcounter0 - 1 = self.len_values - 1) ]

\* ------------------------------------------------------------ FormHelper
\* A helper object: whether it is a FormHelper instance, the mapping its
\* get_attributes() returns, and whether it carries a layout.
OptionValues ==
    [ form_method         |-> Str("get"),
      form_tag            |-> Bool(FALSE),
      form_style          |-> Str("inline"),
      form_error_title    |-> Str("Form errors"),
      formset_error_title |-> Str("Formset errors"),
      form_show_errors    |-> Bool(FALSE),
      help_text_inline    |-> Bool(TRUE),
      html5_required      |-> Bool(TRUE),
      inputs              |-> List("[submit]"),
      flat_attrs          |-> Str(" action=/submit"),
      error_text_inline   |-> Bool(TRUE),
      is_formset          |-> Str("custom"),
      form_action         |-> Str("custom") ]

AttrValues == [ action |-> "/submit", class |-> "wide", id |-> "f1" ]

MakeHelper(options, attrs, layout) ==
    [ isFormHelper |-> TRUE,
      attributes   |-> ("attrs" :> Dict([a \in attrs |-> AttrValues[a]]))
                       @@ [k \in options |-> OptionValues[k]],
      layout       |-> layout ]

\* FormHelper(): no option set, no layout
FormHelper == MakeHelper({}, {}, FALSE)

\* every helper with at most MaxOptions options set
AllHelpers ==
    { MakeHelper(options, attrs, FALSE) :
        options \in { S \in SUBSET DOMAIN OptionValues : Cardinality(S) <= MaxOptions },
        attrs \in SUBSET DOMAIN AttrValues }

\* an object that is not a FormHelper (it may still look like one)
NotAFormHelper ==
    [ isFormHelper |-> FALSE,
      attributes   |-> ("attrs" :> Dict(NoMap)),
      layout       |-> TRUE ]

\* the objects the calling contexts and the forms refer to
HelperIds == {"plain", "laid", "bogus"}
HelperObject(id) ==
    CASE id = "plain" -> FormHelper
      [] id = "laid"  -> MakeHelper({"form_method", "error_text_inline"},
                                    {"action", "class"}, TRUE)
      [] OTHER        -> NotAFormHelper

get_attributes(h) == h.attributes

\* ---------------------------------------------------------------- Context
\* A Context is a stack of dicts; a lookup finds the most recently pushed.
RECURSIVE Flatten(_)
Flatten(dicts) ==
    IF dicts = <<>> THEN NoDict
    ELSE dicts[Len(dicts)] @@ Flatten(SubSeq(dicts, 1, Len(dicts) - 1))

has_key(ctx, key) == key \in DOMAIN Flatten(ctx.dicts)

\* Context.update(other_dict)
ContextUpdate(dicts, other_dict) == Append(dicts, other_dict)

\* --------------------------------------------------- get_response_dict
Key(form_type, suffix) == form_type \o suffix

ResponseDefaults(attrs, form_type, is_formset) ==
       (Key(form_type, "_action") :> Str(DictGet(attrs["attrs"].m, "action", "")))
    @@ (Key(form_type, "_method") :> DictGet(attrs, "form_method", Str("post")))
    @@ (Key(form_type, "_tag")    :> DictGet(attrs, "form_tag", Bool(TRUE)))
    @@ (Key(form_type, "_class")  :> Str(DictGet(attrs["attrs"].m, "class", "")))
    @@ (Key(form_type, "_id")     :> Str(DictGet(attrs["attrs"].m, "id", "")))
    @@ (Key(form_type, "_style")  :> DictGet(attrs, "form_style", None))
    @@ ("form_error_title"    :> DictGet(attrs, "form_error_title", None))
    @@ ("formset_error_title" :> DictGet(attrs, "formset_error_title", None))
    @@ ("form_show_errors"    :> DictGet(attrs, "form_show_errors", Bool(TRUE)))
    @@ ("help_text_inline"    :> DictGet(attrs, "help_text_inline", Bool(FALSE)))
    @@ ("html5_required"      :> DictGet(attrs, "html5_required", Bool(FALSE)))
    @@ ("inputs"              :> DictGet(attrs, "inputs", List("[]")))
    @@ ("is_formset"          :> Bool(is_formset))
    @@ (Key(form_type, "_attrs")  :> DictGet(attrs, "attrs", Str("")))
    @@ ("flat_attrs"          :> DictGet(attrs, "flat_attrs", Str("")))

\* the result of get_response_dict: the TypeError or the dictionary
Raised == [raised |-> TRUE, value |-> NoDict]
Returned(d) == [raised |-> FALSE, value |-> d]

FillResponseDict(h, ctx, is_formset) ==
    LET attrs == get_attributes(h)
        form_type == IF is_formset THEN "formset" ELSE "form"
        defaults == ResponseDefaults(attrs, form_type, is_formset)
        \* custom attributes never replace a key already there
        with_custom == defaults @@ attrs
    IN  IF has_key(ctx, "csrf_token")
        THEN ("csrf_token" :> Flatten(ctx.dicts)["csrf_token"]) @@ with_custom
        ELSE with_custom

get_response_dict_unchecked(h, ctx, is_formset) ==
    Returned(FillResponseDict(h, ctx, is_formset))

get_response_dict_custom_wins(h, ctx, is_formset) ==
    IF ~h.isFormHelper THEN Raised
    ELSE Returned(get_attributes(h) @@ FillResponseDict(h, ctx, is_formset))

get_response_dict(h, ctx, is_formset) ==
    IF ~h.isFormHelper THEN Raised
    ELSE Returned(FillResponseDict(h, ctx, is_formset))

\* get_template(name): every lookup yields a handle of its own
get_template(name) == [name |-> name, id |-> lookups + 1]
NoTemplate == [name |-> "", id |-> 0]

FormsetTemplateName == TEMPLATE_PACK \o "/whole_uni_formset.html"
FormTemplateName == TEMPLATE_PACK \o "/whole_uni_form.html"

\* ------------------------------------------------------------ render calls
FormId(t) == "form#" \o ToString(t)

\* the kinds of object a call may be asked to render: a single form, or a
\* formset of 0..MaxForms forms
FormKinds ==
    {[is_formset |-> FALSE, forms |-> 0]}
      \cup {[is_formset |-> TRUE, forms |-> n] : n \in 0..MaxForms}

NoForm == [id |-> "", is_formset |-> FALSE, forms |-> 0, helper |-> "absent"]
NoContext == [dicts |-> <<>>, render_context |-> <<>>]

\* helper and helper.layout
UseLayout_always(t) == TRUE

UseLayout(t) == helper[t].layout

\* The template engine invokes node.render(context) for call t: the context
\* holds the form under the node's form name, the helper under the node's
\* helper name (when the tag names one) and possibly a csrf_token.
Call(t, kind, named, attached, csrf) ==
    /\ pc[t] = "idle"
    /\ renders < MaxRenders
    /\ renders' = renders + 1
    /\ LET dict == (node.form :> Ref(FormId(t)))
                   @@ (IF node.helper # "None"
                       THEN node.helper :> Ref(named) ELSE NoDict)
                   @@ (IF csrf THEN "csrf_token" :> Str("token") ELSE NoDict)
       IN  /\ context' = [context EXCEPT ![t] =
                            [dicts |-> <<dict>>, render_context |-> <<>>]]
           /\ ambient' = [ambient EXCEPT ![t] = <<dict>>]
    /\ actual_form' = [actual_form EXCEPT ![t] =
                         [id |-> FormId(t), is_formset |-> kind.is_formset,
                          forms |-> kind.forms, helper |-> attached]]
    /\ form_html' = [form_html EXCEPT ![t] = [i \in 0..kind.forms |-> "unset"]]
    /\ pc' = [pc EXCEPT ![t] = "called"]
    /\ UNCHANGED <<globals, lookups, helper, response_dict, node_context,
                   forloop, layout_log, c, template, rendered, advances>>

\* get_render, up to the resolution of the form and the helper
Resolve_attached_first(t) ==
    /\ pc[t] = "called"
    /\ context' = [context EXCEPT ![t].render_context =
                     IF @ = <<>> THEN <<[form |-> node.form, helper |-> node.helper]>>
                     ELSE @]
    /\ helper' = [helper EXCEPT ![t] =
                    IF actual_form[t].helper # "absent"
                    THEN HelperObject(actual_form[t].helper)
                    ELSE IF node.helper # "None"
                    THEN HelperObject(Flatten(context[t].dicts)[node.helper].s)
                    ELSE FormHelper]
    /\ pc' = [pc EXCEPT ![t] = "resolved"]
    /\ UNCHANGED <<globals, lookups, actual_form, response_dict, node_context,
                   forloop, form_html, layout_log, c, template, rendered,
                   renders, advances, ambient>>

Resolve(t) ==
    /\ pc[t] = "called"
    /\ Flatten(context[t].dicts)[node.form].s = actual_form[t].id
    /\ context' = [context EXCEPT ![t].render_context =
                     IF @ = <<>> THEN <<[form |-> node.form, helper |-> node.helper]>>
                     ELSE @]
    /\ helper' = [helper EXCEPT ![t] =
                    IF node.helper # "None"
                    THEN HelperObject(Flatten(context[t].dicts)[node.helper].s)
                    ELSE IF actual_form[t].helper = "absent"
                    THEN FormHelper
                    ELSE HelperObject(actual_form[t].helper)]
    /\ pc' = [pc EXCEPT ![t] = "resolved"]
    /\ UNCHANGED <<globals, lookups, actual_form, response_dict, node_context,
                   forloop, form_html, layout_log, c, template, rendered,
                   renders, advances, ambient>>

\* get_response_dict, then the copy of the context extended with its result
BuildContext(t) ==
    /\ pc[t] = "resolved"
    /\ LET r == get_response_dict(helper[t], context[t], actual_form[t].is_formset)
       IN  IF r.raised
           THEN /\ pc' = [pc EXCEPT ![t] = "raised"]
                /\ UNCHANGED <<response_dict, node_context>>
           ELSE /\ response_dict' = [response_dict EXCEPT ![t] = r.value]
                /\ node_context' = [node_context EXCEPT ![t] =
                                      ContextUpdate(context[t].dicts, r.value)]
                /\ pc' = [pc EXCEPT ![t] = "layout"]
    /\ UNCHANGED <<globals, lookups, context, actual_form, helper, forloop,
                   form_html, layout_log, c, template, rendered, renders,
                   advances, ambient>>

\* what one call of helper.render_layout(form, node_context) is given
Observation(t, i, dicts) ==
    [form |-> i, context |-> Flatten(dicts), forloop |-> forloop[t]]

\* no layout: nothing is rendered
SkipLayout(t) ==
    /\ pc[t] = "layout"
    /\ ~UseLayout(t)
    /\ pc' = [pc EXCEPT ![t] = "update"]
    /\ UNCHANGED <<globals, lookups, context, actual_form, helper,
                   response_dict, node_context, forloop, form_html,
                   layout_log, c, template, rendered, renders, advances,
                   ambient>>

\* a single form: its layout is rendered once
LayoutForm(t) ==
    /\ pc[t] = "layout"
    /\ UseLayout(t)
    /\ ~actual_form[t].is_formset
    /\ layout_log' = [layout_log EXCEPT ![t] =
                        Append(@, Observation(t, 0, node_context[t]))]
    /\ form_html' = [form_html EXCEPT ![t][0] = "html"]
    /\ pc' = [pc EXCEPT ![t] = "update"]
    /\ UNCHANGED <<globals, lookups, context, actual_form, helper,
                   response_dict, node_context, forloop, c, template,
                   rendered, renders, advances, ambient>>

\* a formset: forloop = ForLoopSimulator(actual_form)
NewForLoop(t) ==
    /\ pc[t] = "layout"
    /\ UseLayout(t)
    /\ actual_form[t].is_formset
    /\ forloop' = [forloop EXCEPT ![t] = <<ForLoopSimulator(actual_form[t].forms)>>]
    /\ advances' = [advances EXCEPT ![t] = 0]
    /\ pc' = [pc EXCEPT ![t] = "loop"]
    /\ UNCHANGED <<globals, lookups, context, actual_form, helper,
                   response_dict, node_context, form_html, layout_log, c,
                   template, rendered, renders, ambient>>

\* one pass of the loop over actual_form.forms
LoopBody_shared(t) ==
    /\ pc[t] = "loop"
    /\ advances[t] < actual_form[t].forms
    /\ LET i == advances[t] + 1
           dicts == ContextUpdate(node_context[t], "forloop" :> Ref("forloop"))
       IN  /\ node_context' = [node_context EXCEPT ![t] = dicts]
           /\ layout_log' = [layout_log EXCEPT ![t] =
                               Append(@, Observation(t, i, dicts))]
           /\ form_html' = [form_html EXCEPT ![t][i] = "html"]
    /\ forloop' = [u \in Calls |->
                     IF forloop[u] = <<>> THEN <<>> ELSE <<iterate(forloop[u][1])>>]
    /\ advances' = [advances EXCEPT ![t] = @ + 1]
    /\ UNCHANGED <<globals, lookups, context, actual_form, helper,
                   response_dict, c, template, rendered, renders, pc, ambient>>

LoopBody(t) ==
    /\ pc[t] = "loop"
    /\ advances[t] < actual_form[t].forms
    /\ LET i == advances[t] + 1
           dicts == ContextUpdate(node_context[t], "forloop" :> Ref("forloop"))
       IN  /\ node_context' = [node_context EXCEPT ![t] = dicts]
           /\ layout_log' = [layout_log EXCEPT ![t] =
                               Append(@, Observation(t, i, dicts))]
           /\ form_html' = [form_html EXCEPT ![t][i] = "html"]
    /\ forloop' = [forloop EXCEPT ![t] = <<iterate(@[1])>>]
    /\ advances' = [advances EXCEPT ![t] = @ + 1]
    /\ UNCHANGED <<globals, lookups, context, actual_form, helper,
                   response_dict, c, template, rendered, renders, pc, ambient>>

\* the loop is exhausted
LoopEnd(t) ==
    /\ pc[t] = "loop"
    /\ advances[t] = actual_form[t].forms
    /\ pc' = [pc EXCEPT ![t] = "update"]
    /\ UNCHANGED <<globals, lookups, context, actual_form, helper,
                   response_dict, node_context, forloop, form_html,
                   layout_log, c, template, rendered, renders, advances,
                   ambient>>

\* the form / formset is added to response_dict, which is returned as Context.
\* response_dict is the very dict that was pushed on node_context.
FormKey(is_formset) == IF is_formset THEN "formset" ELSE "form"

UpdateResponse_always_form(t) ==
    /\ pc[t] = "update"
    /\ LET d == ("form" :> Ref(actual_form[t].id)) @@ response_dict[t]
       IN  /\ response_dict' = [response_dict EXCEPT ![t] = d]
           /\ node_context' = [node_context EXCEPT
                                 ![t][Len(context[t].dicts) + 1] = d]
           /\ c' = [c EXCEPT ![t] = d]
    /\ pc' = [pc EXCEPT ![t] = "select"]
    /\ UNCHANGED <<globals, lookups, context, actual_form, helper, forloop,
                   form_html, layout_log, template, rendered, renders,
                   advances, ambient>>

UpdateResponse(t) ==
    /\ pc[t] = "update"
    /\ LET d == (FormKey(actual_form[t].is_formset) :> Ref(actual_form[t].id))
                @@ response_dict[t]
       IN  /\ response_dict' = [response_dict EXCEPT ![t] = d]
           /\ node_context' = [node_context EXCEPT
                                 ![t][Len(context[t].dicts) + 1] = d]
           /\ c' = [c EXCEPT ![t] = d]
    /\ pc' = [pc EXCEPT ![t] = "select"]
    /\ UNCHANGED <<globals, lookups, context, actual_form, helper, forloop,
                   form_html, layout_log, template, rendered, renders,
                   advances, ambient>>

\* CrispyFormNode.render after get_render: the template is chosen and rendered
RenderTemplate_lookup_always(t) ==
    /\ pc[t] = "select"
    /\ LET name == IF c[t]["is_formset"] = Bool(TRUE)
                   THEN FormsetTemplateName ELSE FormTemplateName
           chosen == get_template(name)
       IN  /\ template' = [template EXCEPT ![t] = chosen]
           /\ lookups' = lookups + 1
           /\ rendered' = Append(rendered,
                 [call |-> t, is_formset |-> actual_form[t].is_formset,
                  template |-> chosen])
    /\ pc' = [pc EXCEPT ![t] = "done"]
    /\ UNCHANGED <<globals, context, actual_form, helper, response_dict,
                   node_context, forloop, form_html, layout_log, c, renders,
                   advances, ambient>>

RenderTemplate(t) ==
    /\ pc[t] = "select"
    /\ LET name == IF c[t]["is_formset"] = Bool(TRUE)
                   THEN FormsetTemplateName ELSE FormTemplateName
           chosen == IF DEBUG THEN get_template(name)
                     ELSE IF c[t]["is_formset"] = Bool(TRUE)
                     THEN whole_uni_formset_template
                     ELSE whole_uni_form_template
       IN  /\ template' = [template EXCEPT ![t] = chosen]
           /\ lookups' = IF DEBUG THEN lookups + 1 ELSE lookups
           /\ rendered' = Append(rendered,
                 [call |-> t, is_formset |-> actual_form[t].is_formset,
                  template |-> chosen])
    /\ pc' = [pc EXCEPT ![t] = "done"]
    /\ UNCHANGED <<globals, context, actual_form, helper, response_dict,
                   node_context, forloop, form_html, layout_log, c, renders,
                   advances, ambient>>

\* the call has returned (or raised): its locals and its context are dropped
Return(t) ==
    /\ pc[t] \in {"done", "raised"}
    /\ pc' = [pc EXCEPT ![t] = "idle"]
    /\ context' = [context EXCEPT ![t] = NoContext]
    /\ ambient' = [ambient EXCEPT ![t] = <<>>]
    /\ actual_form' = [actual_form EXCEPT ![t] = NoForm]
    /\ helper' = [helper EXCEPT ![t] = FormHelper]
    /\ response_dict' = [response_dict EXCEPT ![t] = NoDict]
    /\ node_context' = [node_context EXCEPT ![t] = <<>>]
    /\ forloop' = [forloop EXCEPT ![t] = <<>>]
    /\ form_html' = [form_html EXCEPT ![t] = [i \in {0} |-> "unset"]]
    /\ layout_log' = [layout_log EXCEPT ![t] = <<>>]
    /\ c' = [c EXCEPT ![t] = NoDict]
    /\ template' = [template EXCEPT ![t] = NoTemplate]
    /\ advances' = [advances EXCEPT ![t] = 0]
    /\ UNCHANGED <<globals, lookups, rendered, renders>>

\* ------------------------------------------------------------- the system
\* the tag {% crispy form %} or {% crispy form helper %}, as do_uni_form
\* builds the node
do_uni_form(form, named) == [form |-> form, helper |-> named]

FormNames == {"form", "my_form"}
HelperNames == {"None", "helper"}

\* no call in progress; the two templates were loaded when the module was
\* imported
Idle ==
    /\ pc = [t \in Calls |-> "idle"]
    /\ context = [t \in Calls |-> NoContext]
    /\ ambient = [t \in Calls |-> <<>>]
    /\ actual_form = [t \in Calls |-> NoForm]
    /\ helper = [t \in Calls |-> FormHelper]
    /\ response_dict = [t \in Calls |-> NoDict]
    /\ node_context = [t \in Calls |-> <<>>]
    /\ forloop = [t \in Calls |-> <<>>]
    /\ form_html = [t \in Calls |-> [i \in {0} |-> "unset"]]
    /\ layout_log = [t \in Calls |-> <<>>]
    /\ c = [t \in Calls |-> NoDict]
    /\ template = [t \in Calls |-> NoTemplate]
    /\ advances = [t \in Calls |-> 0]
    /\ rendered = <<>>
    /\ renders = 0

Loaded ==
    /\ whole_uni_formset_template = [name |-> FormsetTemplateName, id |-> 1]
    /\ whole_uni_form_template = [name |-> FormTemplateName, id |-> 2]
    /\ lookups = 2

Init ==
    /\ DEBUG \in BOOLEAN
    /\ node \in {do_uni_form(f, h) : f \in FormNames, h \in HelperNames}
    /\ Loaded
    /\ Idle

Step(t) ==
    \/ Resolve(t)
    \/ BuildContext(t)
    \/ SkipLayout(t)
    \/ LayoutForm(t)
    \/ NewForLoop(t)
    \/ LoopBody(t)
    \/ LoopEnd(t)
    \/ UpdateResponse(t)
    \/ RenderTemplate(t)

\* one render call after the other
Next ==
    \/ \E kind \in FormKinds, named \in HelperIds,
          attached \in HelperIds \cup {"absent"}, csrf \in BOOLEAN :
          Call(1, kind, IF node.helper = "None" THEN "none" ELSE named,
               attached, csrf)
    \/ Step(1)
    \/ Return(1)

Spec == Init /\ [][Next]_vars

\* two render calls on the same node {% crispy form helper %}, each with a
\* context and a form of its own, interleaved statement by statement
ConcInit ==
    /\ DEBUG \in BOOLEAN
    /\ node = do_uni_form("form", "helper")
    /\ Loaded
    /\ Idle

ConcNext ==
    \/ \E t \in Calls, kind \in FormKinds, named \in HelperIds, csrf \in BOOLEAN :
          Call(t, kind, named, "absent", csrf)
    \/ \E t \in Calls : Step(t)

SpecConc == ConcInit /\ [][ConcNext]_vars

\* a ForLoopSimulator on its own: built for a formset of any size and
\* iterated any number of times
CursorNew(total) ==
    /\ pc[1] = "idle"
    /\ pc' = [pc EXCEPT ![1] = "cursor"]
    /\ forloop' = [forloop EXCEPT ![1] = <<ForLoopSimulator(total)>>]
    /\ advances' = [advances EXCEPT ![1] = 0]
    /\ UNCHANGED <<globals, lookups, context, actual_form, helper,
                   response_dict, node_context, form_html, layout_log, c,
                   template, rendered, renders, ambient>>

CursorIterate ==
    /\ pc[1] = "cursor"
    /\ advances[1] < MaxAdvances
    /\ forloop' = [forloop EXCEPT ![1] = <<iterate(@[1])>>]
    /\ advances' = [advances EXCEPT ![1] = @ + 1]
    /\ UNCHANGED <<globals, lookups, pc, context, actual_form, helper,
                   response_dict, node_context, form_html, layout_log, c,
                   template, rendered, renders, ambient>>

CursorNext ==
    \/ \E total \in 0..MaxTotal : CursorNew(total)
    \/ CursorIterate

SpecCursor == ConcInit /\ [][CursorNext]_vars

\* get_response_dict on its own: get_render has resolved any helper, a form
\* or a formset, with or without a csrf_token in the context
Resolved(t, h, is_formset, csrf) ==
    /\ pc[t] = "idle"
    /\ LET dict == (node.form :> Ref(FormId(t))) @@ (node.helper :> Ref("given"))
                   @@ (IF csrf THEN "csrf_token" :> Str("token") ELSE NoDict)
       IN  /\ context' = [context EXCEPT ![t] =
                            [dicts |-> <<dict>>,
                             render_context |->
                                <<[form |-> node.form, helper |-> node.helper]>>]]
           /\ ambient' = [ambient EXCEPT ![t] = <<dict>>]
    /\ actual_form' = [actual_form EXCEPT ![t] =
                         [id |-> FormId(t), is_formset |-> is_formset,
                          forms |-> 0, helper |-> "absent"]]
    /\ helper' = [helper EXCEPT ![t] = h]
    /\ pc' = [pc EXCEPT ![t] = "resolved"]
    /\ UNCHANGED <<globals, lookups, response_dict, node_context, forloop,
                   form_html, layout_log, c, template, rendered, renders,
                   advances>>

BuildNext ==
    \/ /\ pc[1] = "idle"
       /\ \E h \in AllHelpers \cup {NotAFormHelper}, is_formset \in BOOLEAN,
             csrf \in BOOLEAN : Resolved(1, h, is_formset, csrf)
    \/ BuildContext(1)

SpecBuild == ConcInit /\ [][BuildNext]_vars

\* =============================================================== claims
Started(t) == pc[t] \in {"resolved", "raised", "layout", "loop", "update",
                         "select", "done"}
Built(t) == pc[t] \in {"layout", "loop", "update", "select", "done"}
LayoutOver(t) == pc[t] \in {"update", "select", "done"}
Returning(t) == pc[t] \in {"select", "done"}

\* the helper the tag's rule selects, from what the call was invoked with
ExpectedHelper(t) ==
    IF node.helper # "None"
    THEN HelperObject(Flatten(ambient[t])[node.helper].s)
    ELSE IF actual_form[t].helper = "absent" THEN FormHelper
    ELSE HelperObject(actual_form[t].helper)

\* the builder's output for a helper and the call's own inputs
BuiltFrom(t, h) ==
    FillResponseDict(h, [dicts |-> ambient[t], render_context |-> <<>>],
                     actual_form[t].is_formset)

\* the number of layout renders a finished layout pass has made
LayoutRenders(t) == IF actual_form[t].is_formset THEN actual_form[t].forms ELSE 1

RECURSIVE IterateN(_, _)
IterateN(cursor, n) == IF n = 0 THEN cursor ELSE iterate(IterateN(cursor, n - 1))

\* C1: rendering a formset of n >= 1 forms with a layout writes form_html
\* once per form in order, and the forloop seen by form i has
\* first = (i = 1) and last = (i = n).
C1_FormsetLoopFlags ==
    \A t \in Calls :
        (Built(t) /\ actual_form[t].is_formset /\ helper[t].layout
            /\ actual_form[t].forms >= 1) =>
            /\ LayoutOver(t) => Len(layout_log[t]) = actual_form[t].forms
            /\ \A i \in 1..Len(layout_log[t]) :
                  /\ layout_log[t][i].form = i
                  /\ form_html[t][i] = "html"
                  /\ layout_log[t][i].forloop # <<>>
                  /\ layout_log[t][i].forloop[1].first = (i = 1)
                  /\ layout_log[t][i].forloop[1].last = (i = actual_form[t].forms)

\* C2: for every total >= 1, counter0 + revcounter0 = total - 1 when the
\* ForLoopSimulator is built and after every iterate(), however many.
C2_IndexSum ==
    \A t \in Calls :
        (forloop[t] # <<>> /\ forloop[t][1].len_values >= 1) =>
            /\ forloop[t][1].counter0 + forloop[t][1].revcounter0
                  = forloop[t][1].len_values - 1
            /\ forloop[t][1].counter0 = advances[t]

C2_Witness ==
    /\ forloop[1] # <<>>
    /\ forloop[1][1].len_values >= 1
    /\ advances[1] > forloop[1][1].len_values

C4_InvalidHelperRaises ==
    \A t \in Calls :
        /\ (Started(t) /\ ~helper[t].isFormHelper) => pc[t] \in {"resolved", "raised"}
        /\ pc[t] = "raised" =>
              /\ ~helper[t].isFormHelper
              /\ response_dict[t] = NoDict
              /\ node_context[t] = <<>>
              /\ c[t] = NoDict
              /\ context[t].dicts = ambient[t]
              /\ context[t].render_context =
                    <<[form |-> node.form, helper |-> node.helper]>>
              /\ layout_log[t] = <<>>
              /\ forloop[t] = <<>>
              /\ template[t] = NoTemplate
              /\ \A i \in DOMAIN form_html[t] : form_html[t][i] = "unset"

C4_Witness ==
    /\ pc[1] = "raised"
    /\ node.helper = "None"
    /\ actual_form[1].helper = "bogus"
    /\ actual_form[1].is_formset
    /\ actual_form[1].forms >= 1

\* C5: a helper named in the tag is the one used, even if the form has its
\* own; otherwise the form's helper attribute if it has one, otherwise
\* FormHelper(); the context is built from it and its layout is applied.
C5_HelperResolution ==
    \A t \in Calls :
        Started(t) =>
            /\ helper[t] = ExpectedHelper(t)
            /\ Built(t) =>
                  \A k \in DOMAIN BuiltFrom(t, ExpectedHelper(t)) :
                      /\ k \in DOMAIN response_dict[t]
                      /\ response_dict[t][k] = BuiltFrom(t, ExpectedHelper(t))[k]
            /\ LayoutOver(t) =>
                  Len(layout_log[t]) =
                      IF ExpectedHelper(t).layout THEN LayoutRenders(t) ELSE 0

C5_Witness ==
    /\ pc[1] = "done"
    /\ node.helper # "None"
    /\ actual_form[1].helper = "laid"
    /\ helper[1] = HelperObject("plain")
    /\ layout_log[1] = <<>>

C7_TemplateSelection ==
    /\ whole_uni_formset_template = [name |-> FormsetTemplateName, id |-> 1]
    /\ whole_uni_form_template = [name |-> FormTemplateName, id |-> 2]
    /\ lookups = 2 + (IF DEBUG THEN Len(rendered) ELSE 0)
    /\ \A i \in 1..Len(rendered) :
          /\ rendered[i].template.name =
                IF rendered[i].is_formset THEN FormsetTemplateName
                ELSE FormTemplateName
          /\ ~DEBUG => rendered[i].template =
                          IF rendered[i].is_formset
                          THEN whole_uni_formset_template
                          ELSE whole_uni_form_template
          /\ DEBUG => /\ rendered[i].template.id > 2
                      /\ \A j \in 1..Len(rendered) :
                            j # i => rendered[j].template # rendered[i].template

C7_Witness ==
    /\ DEBUG
    /\ Len(rendered) = 2
    /\ rendered[1].is_formset = rendered[2].is_formset
    /\ rendered[1].template.name = rendered[2].template.name
    /\ rendered[1].template # rendered[2].template

\* C8 as stated: whenever the layout is rendered, its context binds 'form'
\* (single form) or 'formset' (formset) to the object being rendered,
\* whatever the calling context contains.
C8_FormKeyInLayoutContext ==
    \A t \in Calls :
        \A i \in 1..Len(layout_log[t]) :
            /\ FormKey(actual_form[t].is_formset) \in DOMAIN layout_log[t][i].context
            /\ layout_log[t][i].context[FormKey(actual_form[t].is_formset)]
                  = Ref(actual_form[t].id)

\* C8 as amended: the layout's context is the calling context extended with
\* the builder's output (and 'forloop' for a formset); it binds 'form' /
\* 'formset' only if the calling context or the helper's attributes do. The
\* object is added under that key afterwards, to the returned context.
C8_LayoutContextBeforeFormKey ==
    \A t \in Calls :
        LET key == FormKey(actual_form[t].is_formset)
            base == BuiltFrom(t, helper[t]) @@ Flatten(ambient[t])
        IN  /\ \A i \in 1..Len(layout_log[t]) :
                  /\ layout_log[t][i].context =
                        IF actual_form[t].is_formset
                        THEN ("forloop" :> Ref("forloop")) @@ base
                        ELSE base
                  /\ key \in DOMAIN layout_log[t][i].context <=>
                        key \in DOMAIN Flatten(ambient[t])
                                  \cup DOMAIN helper[t].attributes
            /\ Returning(t) =>
                  /\ key \in DOMAIN c[t]
                  /\ c[t][key] = Ref(actual_form[t].id)
                  /\ c[t] = (key :> Ref(actual_form[t].id)) @@ BuiltFrom(t, helper[t])

C8_Witness ==
    /\ pc[1] = "done"
    /\ Len(layout_log[1]) >= 1
    /\ FormKey(actual_form[1].is_formset) \notin DOMAIN layout_log[1][1].context
    /\ c[1][FormKey(actual_form[1].is_formset)] = Ref(actual_form[1].id)

\* C9: under any interleaving of two calls on the same node, each call's
\* layout observations (forloop snapshots, context entries) and returned
\* context are those of the call run alone, and the node keeps only the
\* names it was built with.
C9_CallsIsolated ==
    /\ node = do_uni_form("form", "helper")
    /\ \A t \in Calls :
          Built(t) =>
              LET h == ExpectedHelper(t)
                  base == BuiltFrom(t, h) @@ Flatten(ambient[t])
                  key == FormKey(actual_form[t].is_formset)
              IN  /\ context[t].dicts = ambient[t]
                  /\ \A i \in 1..Len(layout_log[t]) :
                        layout_log[t][i] =
                            IF actual_form[t].is_formset
                            THEN [form |-> i,
                                  context |-> ("forloop" :> Ref("forloop")) @@ base,
                                  forloop |-> <<IterateN(
                                     ForLoopSimulator(actual_form[t].forms), i - 1)>>]
                            ELSE [form |-> 0, context |-> base, forloop |-> <<>>]
                  /\ LayoutOver(t) =>
                        Len(layout_log[t]) = IF h.layout THEN LayoutRenders(t) ELSE 0
                  /\ Returning(t) =>
                        c[t] = (key :> Ref(actual_form[t].id)) @@ BuiltFrom(t, h)

C9_Witness ==
    /\ pc[1] = "loop"
    /\ pc[2] = "loop"
    /\ advances[1] = 2
    /\ advances[2] = 1
    /\ actual_form[1].forms > 2
    /\ actual_form[1].forms # actual_form[2].forms
    /\ Flatten(ambient[1]) # Flatten(ambient[2])

\* C10: a resolved helper without layout renders no layout: render_layout
\* is never called, no ForLoopSimulator is built or iterated, no form_html
\* is set, and the returned context still holds the form / formset.
C10_NoLayoutNoOp ==
    \A t \in Calls :
        (Built(t) /\ ~helper[t].layout) =>
            /\ pc[t] # "loop"
            /\ layout_log[t] = <<>>
            /\ forloop[t] = <<>>
            /\ advances[t] = 0
            /\ \A i \in DOMAIN form_html[t] : form_html[t][i] = "unset"
            /\ Returning(t) =>
                  /\ FormKey(actual_form[t].is_formset) \in DOMAIN c[t]
                  /\ c[t][FormKey(actual_form[t].is_formset)] = Ref(actual_form[t].id)

C10_Witness ==
    /\ pc[1] = "done"
    /\ helper[1].isFormHelper
    /\ ~helper[1].layout
    /\ actual_form[1].is_formset
    /\ actual_form[1].forms >= 2
    /\ "formset" \in DOMAIN c[1]

====
